---- MODULE Spec2Model ----
(***************************************************************************)
(* State-machine model of src/src/App.jsx: the App component's React state, *)
(* the localStorage slot 'ssh-vnc-configs-mui' and the handlers behind the  *)
(* Load / Save / Delete / Generate buttons and the form fields.             *)
(*                                                                          *)
(* Representation                                                           *)
(*  - a JS string is a TLA+ string; the only falsy string is "".            *)
(*  - a profile object {ip, user, port, keyPath} is a function from the     *)
(*    property names it has to strings.                                     *)
(*  - the configs object is a sequence of <<name, profile>> pairs in the    *)
(*    object's own-key order (insertion order: the names of the model are   *)
(*    not integer-like).                                                    *)
(*  - the slot is a record: present = FALSE is localStorage.getItem        *)
(*    returning null, otherwise text is the stored text, a sequence of JSON *)
(*    tokens.                                                               *)
(***************************************************************************)
EXTENDS Naturals, Sequences, FiniteSets, TLC

VARIABLES
    slot,            \* localStorage['ssh-vnc-configs-mui']: Absent or a text
    appState,        \* "init" before the mount effects, "running", "crashed"
    configs,         \* useState({})
    selectedConfig,  \* useState('')
    configName,      \* useState('')
    pixelIp,         \* useState('')
    pixelUser,       \* useState('')
    sshPort,         \* useState('22')
    sshKeyPaths,     \* useState(''): the pasted text, as a sequence of pieces
    availableKeys,   \* useState([])
    selectedKey,     \* useState('')
    isModalOpen,     \* useState(false)
    modalContent,    \* useState(null)
    uncaught,        \* the exception the last handler or effect let escape
    lastWrite,       \* the setItem the last handler did: "none", "save", "delete"
    edits            \* how many times a form field was edited in this session

vars == <<slot, appState, configs, selectedConfig, configName, pixelIp, pixelUser,
          sshPort, sshKeyPaths, availableKeys, selectedKey, isModalOpen,
          modalContent, uncaught, lastWrite, edits>>

form == <<configName, pixelIp, pixelUser, sshPort, selectedKey>>
keyList == <<sshKeyPaths, availableKeys>>
modal == <<isModalOpen, modalContent>>

-----------------------------------------------------------------------------
(* What the user types: the non-empty values each field is given, and the   *)
(* bound on how many field edits a session has.                             *)

MaxEdits == 2

Names == {"home", "work"}
Ports == {"22", "2222"}
Ips == {"10.0.0.5", "192.168.1.20"}
Users == {"pat"}
KeyPath == "/home/pat/.ssh/id_ed25519"
OtherKeyPath == "/home/pat/.ssh/id_rsa"

\* The texts pasted into "Paste Key Paths Here": pieces are "\n", " " or a path.
PastedTexts == {<<>>, <<" ", KeyPath, "\n", "\n", OtherKeyPath, "\n">>}

-----------------------------------------------------------------------------
(* JS values                                                                *)

Absent == [present |-> FALSE, text |-> <<>>]   \* getItem gives null
Text(toks) == [present |-> TRUE, text |-> toks]
Null == <<>>                                   \* modalContent's initial null
NoError == "none"
SyntaxError == "SyntaxError"

Truthy(s) == s # ""

\* a || b on strings, with a possibly missing property (undefined is falsy)
PropOr(obj, prop, dflt) ==
    IF prop \in DOMAIN obj /\ Truthy(obj[prop]) THEN obj[prop] ELSE dflt

EmptyObject == <<>>

Keys(obj) == {obj[i][1] : i \in DOMAIN obj}

Has(obj, k) == k \in Keys(obj)

IndexOf(obj, k) == CHOOSE i \in DOMAIN obj : obj[i][1] = k

\* obj[k], for a k that obj has
Get(obj, k) == obj[IndexOf(obj, k)][2]

\* obj[k] = v: an existing property keeps its place, a new one is appended
Put(obj, k, v) ==
    IF Has(obj, k) THEN [obj EXCEPT ![IndexOf(obj, k)] = <<k, v>>]
    ELSE Append(obj, <<k, v>>)

\* Remove with the key taken from the name field instead of the selection
RemoveByConfigName(obj, k) == SelectSeq(obj, LAMBDA e : e[1] # configName)

\* delete obj[k]
Remove(obj, k) == SelectSeq(obj, LAMBDA e : e[1] # k)

-----------------------------------------------------------------------------
(* JSON text: a sequence of tokens, <<"p", c>> punctuation, <<"s", s>> a    *)
(* string literal.                                                          *)

LBrace == <<"p", "{">>
RBrace == <<"p", "}">>
Colon == <<"p", ":">>
Comma == <<"p", ",">>
Str(s) == <<"s", s>>
IsStr(tok) == tok[1] = "s"

FieldOrder == <<"ip", "user", "port", "keyPath">>

RECURSIVE CommaJoin(_)
CommaJoin(parts) ==
    IF parts = <<>> THEN <<>>
    ELSE IF Len(parts) = 1 THEN parts[1]
    ELSE parts[1] \o <<Comma>> \o CommaJoin(Tail(parts))

StringifyProfile(p) ==
    LET fs == SelectSeq(FieldOrder, LAMBDA f : f \in DOMAIN p)
    IN <<LBrace>>
         \o CommaJoin([i \in 1..Len(fs) |-> <<Str(fs[i]), Colon, Str(p[fs[i]])>>])
         \o <<RBrace>>

JSONstringify(obj) ==
    <<LBrace>>
      \o CommaJoin([i \in 1..Len(obj) |->
                      <<Str(obj[i][1]), Colon>> \o StringifyProfile(obj[i][2])])
      \o <<RBrace>>

ParseFail == [ok |-> FALSE, val |-> <<>>, next |-> 0]

RECURSIVE ParseProfileMembers(_, _, _)
ParseProfileMembers(toks, i, acc) ==
    IF \/ i + 3 > Len(toks)
       \/ ~IsStr(toks[i])
       \/ toks[i + 1] # Colon
       \/ ~IsStr(toks[i + 2])
    THEN ParseFail
    ELSE LET acc2 == (toks[i][2] :> toks[i + 2][2]) @@ acc
         IN IF toks[i + 3] = RBrace
            THEN [ok |-> TRUE, val |-> acc2, next |-> i + 4]
            ELSE IF toks[i + 3] = Comma
            THEN ParseProfileMembers(toks, i + 4, acc2)
            ELSE ParseFail

ParseProfile(toks, i) ==
    IF i + 1 > Len(toks) \/ toks[i] # LBrace THEN ParseFail
    ELSE IF toks[i + 1] = RBrace THEN [ok |-> TRUE, val |-> <<>>, next |-> i + 2]
    ELSE ParseProfileMembers(toks, i + 1, <<>>)

RECURSIVE ParseConfigMembers(_, _, _)
ParseConfigMembers(toks, i, acc) ==
    IF \/ i + 1 > Len(toks)
       \/ ~IsStr(toks[i])
       \/ toks[i + 1] # Colon
    THEN ParseFail
    ELSE LET p == ParseProfile(toks, i + 2)
         IN IF ~p.ok \/ p.next > Len(toks) THEN ParseFail
            ELSE LET acc2 == Put(acc, toks[i][2], p.val)
                 IN IF toks[p.next] = RBrace
                    THEN [ok |-> TRUE, val |-> acc2, next |-> p.next + 1]
                    ELSE IF toks[p.next] = Comma
                    THEN ParseConfigMembers(toks, p.next + 1, acc2)
                    ELSE ParseFail

\* JSON.parse on the texts of the model: an object of objects of strings, or
\* a SyntaxError (ok = FALSE)
JSONparse(toks) ==
    LET r == IF Len(toks) < 2 \/ toks[1] # LBrace THEN ParseFail
             ELSE IF toks[2] = RBrace
             THEN [ok |-> TRUE, val |-> EmptyObject, next |-> 3]
             ELSE ParseConfigMembers(toks, 2, EmptyObject)
    IN IF r.ok /\ r.next = Len(toks) + 1 THEN r ELSE ParseFail

\* the read without its `saved ?` test
SlotAlwaysParsed(s) == TRUE

\* `saved ? JSON.parse(saved) : {}`: null and '' are falsy
SlotTruthy(s) == s.present /\ s.text # <<>>

\* the read of a slot value: ok = FALSE when JSON.parse throws
Read(s) ==
    IF SlotTruthy(s) THEN JSONparse(s.text)
    ELSE [ok |-> TRUE, val |-> EmptyObject, next |-> 0]

ReadThrows(s) == ~Read(s).ok

ReadValue(s) == Read(s).val

-----------------------------------------------------------------------------
(* What the slot may hold when the page is opened.                          *)

Profile(ip, user, port, keyPath) ==
    [ip |-> ip, user |-> user, port |-> port, keyPath |-> keyPath]

SavedEarlier ==
    <<<<"home", Profile("10.0.0.5", "pat", "22", KeyPath)>>,
      <<"work", Profile("192.168.1.20", "", "22", "")>>>>

\* a write cut short: {"home"
TruncatedText == <<LBrace, Str("home")>>

InitialSlots ==
    {Absent, Text(<<>>), Text(TruncatedText), Text(JSONstringify(EmptyObject)),
     Text(JSONstringify(SavedEarlier))}

Init ==
    /\ slot \in InitialSlots
    /\ appState = "init"
    /\ configs = EmptyObject
    /\ selectedConfig = ""
    /\ configName = ""
    /\ pixelIp = ""
    /\ pixelUser = ""
    /\ sshPort = "22"
    /\ sshKeyPaths = <<>>
    /\ availableKeys = <<>>
    /\ selectedKey = ""
    /\ isModalOpen = FALSE
    /\ modalContent = Null
    /\ uncaught = NoError
    /\ lastWrite = "none"
    /\ edits = 0

-----------------------------------------------------------------------------
(* The key list effect: sshKeyPaths.trim().split('\n').filter(p => p.length) *)

IsSpace(c) == c \in {" ", "\n"}

RECURSIVE TrimStart(_)
TrimStart(t) == IF t # <<>> /\ IsSpace(Head(t)) THEN TrimStart(Tail(t)) ELSE t

RECURSIVE TrimEnd(_)
TrimEnd(t) ==
    IF t # <<>> /\ IsSpace(t[Len(t)]) THEN TrimEnd(SubSeq(t, 1, Len(t) - 1)) ELSE t

Trim(t) == TrimEnd(TrimStart(t))

RECURSIVE SplitLines(_, _)
SplitLines(t, cur) ==
    IF t = <<>> THEN <<cur>>
    ELSE IF Head(t) = "\n" THEN <<cur>> \o SplitLines(Tail(t), "")
    ELSE SplitLines(Tail(t), cur \o Head(t))

KeyPathsOf(text) == SelectSeq(SplitLines(Trim(text), ""), LAMBDA p : p # "")

-----------------------------------------------------------------------------
(* Mount: the two effects that run after the first render.                  *)

Mount ==
    /\ appState = "init"
    /\ LET savedConfigs == Read(slot)
       IN IF ~savedConfigs.ok
          THEN /\ appState' = "crashed"
               /\ uncaught' = SyntaxError
               /\ UNCHANGED <<configs, availableKeys>>
          ELSE /\ appState' = "running"
               /\ uncaught' = NoError
               /\ configs' = savedConfigs.val
               /\ availableKeys' = KeyPathsOf(sshKeyPaths)
    /\ UNCHANGED <<slot, selectedConfig, form, sshKeyPaths, modal, lastWrite, edits>>

-----------------------------------------------------------------------------
(* The form: one action per onChange.                                       *)

\* an onChange of a form field
Edit ==
    /\ appState = "running"
    /\ edits < MaxEdits
    /\ edits' = edits + 1
    /\ lastWrite' = "none"
    /\ uncaught' = NoError

\* an onChange or onClose that is no field edit
Click ==
    /\ appState = "running"
    /\ lastWrite' = "none"
    /\ uncaught' = NoError
    /\ UNCHANGED edits

SetSelectedConfig ==
    /\ Click
    /\ \E v \in {""} \cup Keys(configs) : selectedConfig' = v
    /\ UNCHANGED <<slot, appState, configs, form, keyList, modal>>

SetConfigName ==
    /\ Edit
    /\ \E v \in {""} \cup Names : configName' = v
    /\ UNCHANGED <<slot, appState, configs, selectedConfig, pixelIp, pixelUser,
                   sshPort, selectedKey, keyList, modal>>

SetPixelIp ==
    /\ Edit
    /\ \E v \in {""} \cup Ips : pixelIp' = v
    /\ UNCHANGED <<slot, appState, configs, selectedConfig, configName, pixelUser,
                   sshPort, selectedKey, keyList, modal>>

SetPixelUser ==
    /\ Edit
    /\ \E v \in {""} \cup Users : pixelUser' = v
    /\ UNCHANGED <<slot, appState, configs, selectedConfig, configName, pixelIp,
                   sshPort, selectedKey, keyList, modal>>

SetSshPort ==
    /\ Edit
    /\ \E v \in {""} \cup Ports : sshPort' = v
    /\ UNCHANGED <<slot, appState, configs, selectedConfig, configName, pixelIp,
                   pixelUser, selectedKey, keyList, modal>>

SetSshKeyPaths ==
    /\ Edit
    /\ \E t \in PastedTexts :
          /\ sshKeyPaths' = t
          /\ availableKeys' = KeyPathsOf(t)
    /\ UNCHANGED <<slot, appState, configs, selectedConfig, form, modal>>

SetSelectedKey ==
    /\ Edit
    /\ \E v \in {""} \cup {availableKeys[i] : i \in DOMAIN availableKeys} :
          selectedKey' = v
    /\ UNCHANGED <<slot, appState, configs, selectedConfig, configName, pixelIp,
                   pixelUser, sshPort, keyList, modal>>

CloseModal ==
    /\ Click
    /\ isModalOpen
    /\ isModalOpen' = FALSE
    /\ UNCHANGED <<slot, appState, configs, selectedConfig, form, keyList,
                   modalContent>>

-----------------------------------------------------------------------------
(* The configuration store.                                                 *)

\* what loadConfigsFromStorage does: it throws (ok = FALSE), or returns val
\* (and has handed it to setConfigs)
loadConfigsFromStorage == Read(slot)

\* JSON.parse throws inside loadConfigsFromStorage: the handler ends there
Throw ==
    /\ lastWrite' = "none"
    /\ uncaught' = SyntaxError
    /\ UNCHANGED <<slot, appState, configs, selectedConfig, form, keyList, modal>>

handleLoadConfig ==
    /\ appState = "running"
    /\ IF ~Truthy(selectedConfig)
       THEN /\ lastWrite' = "none"
            /\ uncaught' = NoError
            /\ UNCHANGED <<configs, form>>
       ELSE LET parsed == loadConfigsFromStorage
            IN IF ~parsed.ok
               THEN Throw
               ELSE /\ lastWrite' = "none"
                    /\ uncaught' = NoError
                    /\ configs' = parsed.val
                    /\ IF Has(parsed.val, selectedConfig)
                       THEN LET data == Get(parsed.val, selectedConfig)
                            IN /\ configName' = selectedConfig
                               /\ pixelIp' = PropOr(data, "ip", "")
                               /\ pixelUser' = PropOr(data, "user", "")
                               /\ sshPort' = PropOr(data, "port", "22")
                               /\ selectedKey' = PropOr(data, "keyPath", "")
                       ELSE UNCHANGED form
    /\ UNCHANGED <<slot, appState, selectedConfig, keyList, modal, edits>>

\* Merge without the spread of currentConfigs
MergeOntoNothing(currentConfigs, name, ip, user, port, keyPath) ==
    <<<<name, Profile(ip, user, port, keyPath)>>>>

\* { ...currentConfigs, [configName]: { ip, user, port, keyPath } }
Merge(currentConfigs, name, ip, user, port, keyPath) ==
    Put(currentConfigs, name, Profile(ip, user, port, keyPath))

\* Save without its test of the name
SaveProceedsAlways(name) == TRUE

\* `if (!configName) return;`
SaveProceeds(name) == Truthy(name)

\* Save without its own setConfigs(newConfigs)
setConfigsParsedOnly(parsed, newConfigs) == parsed

\* setConfigs(parsed) inside loadConfigsFromStorage, then setConfigs(newConfigs):
\* the state after the handler is the last one set
setConfigsAfterSave(parsed, newConfigs) == newConfigs

handleSaveConfig ==
    /\ appState = "running"
    /\ IF ~SaveProceeds(configName)
       THEN /\ lastWrite' = "none"
            /\ uncaught' = NoError
            /\ UNCHANGED <<slot, configs>>
       ELSE LET currentConfigs == loadConfigsFromStorage
                newConfigs == Merge(currentConfigs.val, configName, pixelIp,
                                    pixelUser, sshPort, selectedKey)
            IN IF ~currentConfigs.ok
               THEN Throw
               ELSE /\ lastWrite' = "save"
                    /\ uncaught' = NoError
                    /\ slot' = Text(JSONstringify(newConfigs))
                    /\ configs' = setConfigsAfterSave(currentConfigs.val, newConfigs)
    /\ UNCHANGED <<appState, selectedConfig, form, keyList, modal, edits>>

\* Delete without the confirm() in its test
DeleteProceedsUnasked(selected, answer) == Truthy(selected)

\* `!selectedConfig || !confirm(...)`: confirm is asked only with a selection
DeleteProceeds(selected, answer) == Truthy(selected) /\ answer

handleDeleteConfig(answer) ==
    /\ appState = "running"
    /\ IF ~DeleteProceeds(selectedConfig, answer)
       THEN /\ lastWrite' = "none"
            /\ uncaught' = NoError
            /\ UNCHANGED <<slot, configs, selectedConfig, configName>>
       ELSE LET parsed == loadConfigsFromStorage
                currentConfigs == Remove(parsed.val, selectedConfig)
            IN IF ~parsed.ok
               THEN Throw
               ELSE /\ lastWrite' = "delete"
                    /\ uncaught' = NoError
                    /\ slot' = Text(JSONstringify(currentConfigs))
                    /\ configs' = currentConfigs
                    /\ configName' = ""
                    /\ selectedConfig' = ""
    /\ UNCHANGED <<appState, pixelIp, pixelUser, sshPort, selectedKey, keyList, modal,
                   edits>>

-----------------------------------------------------------------------------
(* The instructions generator.                                              *)

RECURSIVE Join(_, _)
Join(lines, sep) ==
    IF lines = <<>> THEN ""
    ELSE IF Len(lines) = 1 THEN lines[1]
    ELSE lines[1] \o sep \o Join(Tail(lines), sep)

debianCommands ==
    Join(<<"# 1. Install & Enable SSH",
           "sudo apt update && sudo apt install -y openssh-server",
           "sudo systemctl enable ssh --now",
           "\n# 2. Add Your Public Key",
           "echo 'PASTE_PUBLIC_KEY_HERE' >> ~/.ssh/authorized_keys",
           "\n# 3. Set Permissions",
           "chmod 700 ~/.ssh && chmod 600 ~/.ssh/authorized_keys">>, "\n")

\* the command without the .pub suffix: it would print the private key
privateKeyPath(key) == "cat " \o key

publicKeyPath(key) == "cat " \o key \o ".pub"

removeHostKeyCommand(ip) == "ssh-keygen -R " \o ip

\* the test without the user name, which the instructions do not use
GenerateProceedsWithoutUser(ip, user, port, key) ==
    Truthy(ip) /\ Truthy(port) /\ Truthy(key)

\* `if (!pixelIp || !pixelUser || !sshPort || !selectedKey) return;`
GenerateProceeds(ip, user, port, key) ==
    Truthy(ip) /\ Truthy(user) /\ Truthy(port) /\ Truthy(key)

\* the three CodeBlock children of the modal's content, in order
Instructions(ip, key) ==
    <<publicKeyPath(key), debianCommands, removeHostKeyCommand(ip)>>

handleGenerateInstructions ==
    /\ appState = "running"
    /\ lastWrite' = "none"
    /\ uncaught' = NoError
    /\ IF GenerateProceeds(pixelIp, pixelUser, sshPort, selectedKey)
       THEN /\ modalContent' = Instructions(pixelIp, selectedKey)
            /\ isModalOpen' = TRUE
       ELSE UNCHANGED modal
    /\ UNCHANGED <<slot, appState, configs, selectedConfig, form, keyList, edits>>

-----------------------------------------------------------------------------

Next ==
    \/ Mount
    \/ SetSelectedConfig
    \/ SetConfigName
    \/ SetPixelIp
    \/ SetPixelUser
    \/ SetSshPort
    \/ SetSshKeyPaths
    \/ SetSelectedKey
    \/ CloseModal
    \/ handleLoadConfig
    \/ handleSaveConfig
    \/ \E answer \in BOOLEAN : handleDeleteConfig(answer)
    \/ handleGenerateInstructions

Spec == Init /\ [][Next]_vars

-----------------------------------------------------------------------------
(* localStorage is shared by every page of the origin and can be cleared by *)
(* the user: between two handlers the slot may be removed, or clobbered by  *)
(* a write that was cut short.                                              *)

StorageChanged ==
    /\ appState = "running"
    /\ \E s \in {Absent, Text(TruncatedText)} : s # slot /\ slot' = s
    /\ lastWrite' = "none"
    /\ uncaught' = NoError
    /\ UNCHANGED <<appState, configs, selectedConfig, form, keyList, modal, edits>>

NextShared == Next \/ StorageChanged

SpecShared == Init /\ [][NextShared]_vars

-----------------------------------------------------------------------------
(* Properties.  Stored is the mapping a read of the slot yields now,        *)
(* StoredNext the one it yields after the step.                             *)

Stored == ReadValue(slot)

StoredNext == ReadValue(slot')

SlotUnparsable == ReadThrows(slot)

AllFilled ==
    Truthy(pixelIp) /\ Truthy(pixelUser) /\ Truthy(sshPort) /\ Truthy(selectedKey)

\* a step of handleLoadConfig that found the selected name in the store
LoadedStep ==
    /\ Truthy(selectedConfig)
    /\ slot' = slot
    /\ configName' = selectedConfig
    /\ edits' = edits
    /\ ~SlotUnparsable
    /\ Has(Stored, selectedConfig)
    /\ handleLoadConfig

\* C1: Save under N stores exactly the four form values, and Load of N sets
\* the four form fields to exactly the values stored under N.
C1_SaveThenLoadRoundTrip ==
    [][/\ lastWrite' = "save" =>
            /\ Has(StoredNext, configName)
            /\ Get(StoredNext, configName)
                 = Profile(pixelIp, pixelUser, sshPort, selectedKey)
       /\ LoadedStep =>
            LET data == Get(Stored, selectedConfig)
            IN /\ pixelIp' = data.ip
               /\ pixelUser' = data.user
               /\ sshPort' = data.port
               /\ selectedKey' = data.keyPath]_vars

\* C2: while the slot holds text that does not parse, no read raises an error
\* and the application is not in an error state.
C2_UnparsableSlotReadsAsEmpty ==
    SlotUnparsable => (uncaught = NoError /\ appState # "crashed")

\* C3: a Save under a name the store already has keeps the set of names and
\* every other name's entry.
C3_SaveOverwritesOnlyThatEntry ==
    [][(lastWrite' = "save" /\ Has(Stored, configName)) =>
          /\ Keys(StoredNext) = Keys(Stored)
          /\ \A m \in Keys(Stored) \ {configName} :
                Get(StoredNext, m) = Get(Stored, m)]_vars

C3_Witness ==
    /\ lastWrite = "save"
    /\ configName = "home"
    /\ Keys(Stored) = {"home", "work"}
    /\ Get(Stored, "home") # Get(SavedEarlier, "home")
    /\ Get(Stored, "work") = Get(SavedEarlier, "work")

\* what a confirmed Delete of the selected name does to the entries
DeleteRemovesOnlySelected ==
    /\ Keys(StoredNext) = Keys(Stored) \ {selectedConfig}
    /\ \A m \in Keys(StoredNext) : Get(StoredNext, m) = Get(Stored, m)

\* C4 as claimed: a confirmed Delete removes exactly the selected entry, and
\* with a name the store does not have it leaves the slot as it was.
C4_DeleteOfMissingNameLeavesSlot ==
    [][lastWrite' = "delete" =>
          /\ DeleteRemovesOnlySelected
          /\ ~Has(Stored, selectedConfig) => slot' = slot]_vars

\* C4 as amended: a confirmed Delete removes exactly the selected entry; with
\* a name the store does not have the stored mapping is as it was, and the
\* slot is rewritten with the text of that mapping.
C4_DeleteOfMissingNameLeavesMapping ==
    [][lastWrite' = "delete" =>
          /\ DeleteRemovesOnlySelected
          /\ ~Has(Stored, selectedConfig) =>
                /\ StoredNext = Stored
                /\ slot' = Text(JSONstringify(Stored))]_vars

C4_Witness ==
    /\ lastWrite = "delete"
    /\ selectedConfig = ""
    /\ Stored = <<SavedEarlier[2]>>

\* C5: an entry leaves the slot only in a Delete whose confirm() was answered
\* with OK; a Delete that is declined, or has no selection, leaves the slot,
\* configs, configName and selectedConfig as they were.
C5_DeleteOnlyAfterConfirmation ==
    [][/\ (slot' # slot /\ \E n \in Keys(Stored) : ~Has(StoredNext, n)) =>
            (Truthy(selectedConfig) /\ handleDeleteConfig(TRUE))
       /\ (handleDeleteConfig(FALSE)
             \/ (~Truthy(selectedConfig) /\ handleDeleteConfig(TRUE))) =>
            UNCHANGED <<slot, configs, configName, selectedConfig>>]_vars

C5_Witness ==
    /\ lastWrite = "delete"
    /\ selectedConfig = ""
    /\ configName = ""
    /\ Keys(Stored) = {"home"}
    /\ configs = Stored

\* C6: Generate with one of the four inputs empty leaves the modal's content
\* and open flag as they were and raises nothing; the modal is opened or
\* filled only by a Generate with all four inputs non-empty.
C6_GenerateSkippedWhenIncomplete ==
    [][/\ (handleGenerateInstructions /\ ~AllFilled) =>
            (UNCHANGED modal /\ uncaught' = NoError)
       /\ (modal' # modal /\ isModalOpen') =>
            (AllFilled /\ handleGenerateInstructions)]_vars

C6_Witness ==
    /\ isModalOpen
    /\ modalContent # Null
    /\ AllFilled
    /\ pixelIp = "192.168.1.20"

\* the text the second block has to be
DebianSetupScript ==
    "# 1. Install & Enable SSH\nsudo apt update && sudo apt install -y openssh-server\nsudo systemctl enable ssh --now\n\n# 2. Add Your Public Key\necho 'PASTE_PUBLIC_KEY_HERE' >> ~/.ssh/authorized_keys\n\n# 3. Set Permissions\nchmod 700 ~/.ssh && chmod 600 ~/.ssh/authorized_keys"

\* C7: a Generate with all four inputs non-empty yields three blocks: 'cat '
\* + key path + '.pub', the fixed Debian script, 'ssh-keygen -R ' + ip; for
\* ip 10.0.0.5 and key /home/pat/.ssh/id_ed25519 the two commands are the
\* literal ones.
C7_GeneratedInstructions ==
    [][(AllFilled /\ handleGenerateInstructions) =>
          /\ modalContent' = <<"cat " \o selectedKey \o ".pub",
                               DebianSetupScript,
                               "ssh-keygen -R " \o pixelIp>>
          /\ (pixelIp = "10.0.0.5" /\ selectedKey = "/home/pat/.ssh/id_ed25519") =>
                /\ modalContent'[1] = "cat /home/pat/.ssh/id_ed25519.pub"
                /\ modalContent'[3] = "ssh-keygen -R 10.0.0.5"]_vars

C7_Witness ==
    /\ isModalOpen
    /\ Len(modalContent) = 3
    /\ modalContent[1] = "cat /home/pat/.ssh/id_ed25519.pub"
    /\ modalContent[2] = DebianSetupScript
    /\ modalContent[3] = "ssh-keygen -R 10.0.0.5"

\* C8: with the slot never written, the mount effect and the reads inside
\* Load, Save and Delete yield the empty mapping and raise nothing, and a
\* Save under N leaves a stored mapping whose only name is N.
C8_AbsentSlotReadsAsEmpty ==
    [][~slot.present =>
          /\ (appState = "init" /\ appState' # "init") =>
                (appState' = "running" /\ configs' = EmptyObject
                   /\ uncaught' = NoError)
          /\ (handleLoadConfig \/ handleSaveConfig
                \/ \E answer \in BOOLEAN : handleDeleteConfig(answer)) =>
                uncaught' = NoError
          /\ (Truthy(selectedConfig) /\ handleLoadConfig) =>
                (configs' = EmptyObject /\ UNCHANGED form)
          /\ (Truthy(selectedConfig) /\ handleDeleteConfig(TRUE)) =>
                (configs' = EmptyObject /\ StoredNext = EmptyObject)
          /\ (Truthy(configName) /\ handleSaveConfig) =>
                (Keys(StoredNext) = {configName} /\ configs' = StoredNext)]_vars

C8_Witness ==
    /\ lastWrite = "save"
    /\ configName = "work"
    /\ Keys(Stored) = {"work"}
    /\ configs = Stored

\* C9: every name in the stored mapping is non-empty, and a Save with an
\* empty configName leaves the slot and configs as they were.
C9_StoredNamesNonEmpty ==
    /\ [](\A k \in Keys(Stored) : Truthy(k))
    /\ [][(~Truthy(configName) /\ handleSaveConfig) =>
             UNCHANGED <<slot, configs>>]_vars

C9_Witness ==
    /\ lastWrite = "save"
    /\ Len(Stored) = 2
    /\ Stored[1][1] = "work"
    /\ Stored[2][1] = "home"

\* C10: once mounted, configs is the mapping the slot holds, selectedConfig
\* is empty or one of its names, and right after a Delete both selectedConfig
\* and configName are empty.
C10_ListMatchesStore ==
    appState = "running" =>
       /\ configs = Stored
       /\ selectedConfig \in {""} \cup Keys(Stored)
       /\ lastWrite = "delete" => (selectedConfig = "" /\ configName = "")

C10_Witness ==
    /\ appState = "running"
    /\ lastWrite = "save"
    /\ selectedConfig = "work"
    /\ configName = "home"
    /\ Keys(configs) = {"home", "work"}
    /\ Get(configs, "home").port = "2222"

====
